---- MODULE Spec2Model ----
(***************************************************************************)
(* Model of src/handlers/messageHandler.js: handleSlackMessageEventInternal *)
(* and its helper updateOrDeleteThinkingMessage.                            *)
(*                                                                          *)
(* A message text is a sequence of tokens.  A token stands for a run of     *)
(* characters that the handler's string operations and regular expressions  *)
(* treat as a unit: whitespace, the bot mention, the command prefix, a      *)
(* word, an owner/repo pair, '#' followed by digits, '#' followed by a      *)
(* workspace slug.                                                          *)
(***************************************************************************)
EXTENDS Integers, Sequences, FiniteSets, TLC

\* ------------------------------------------------------------------ bounds
MaxThreads == 2

\* ------------------------------------------------------------------ tokens
SP == " "
MENTION == "<@BOT>"
DEL == "#delete_last_message"
GH == "gh>"
NUM == "#7"
OWNERREPO == "o/r"
Words == {"release", "review", "pr", "analyze", "issue", "api", "foo"}
HashWords == {"#W1", "#W2", NUM, DEL}
Workspaces == {"W1", "W2"}
NoWs == ""
NoThread == 0

\* The slug captured by #(?<workspace_slug>[\w-]+) from a '#...' token.
SlugOf(t) ==
    CASE t = "#W1" -> "W1"
      [] t = "#W2" -> "W2"
      [] t = NUM -> "7"
      [] t = DEL -> "delete_last_message"
      [] OTHER -> NoWs

\* String.prototype.trim on a token sequence.
RECURSIVE TrimLeft(_)
TrimLeft(s) == IF s # <<>> /\ Head(s) = SP THEN TrimLeft(Tail(s)) ELSE s

RECURSIVE TrimRight(_)
TrimRight(s) ==
    IF s # <<>> /\ s[Len(s)] = SP THEN TrimRight(SubSeq(s, 1, Len(s) - 1)) ELSE s

Trim(s) == TrimRight(TrimLeft(s))

\* String.prototype.replace(mentionString, ''): only the FIRST occurrence goes.
RemoveFirst(s, t) ==
    IF \E i \in 1..Len(s) : s[i] = t
    THEN LET i == CHOOSE k \in 1..Len(s) : s[k] = t /\ \A j \in 1..(k - 1) : s[j] # t
         IN  SubSeq(s, 1, i - 1) \o SubSeq(s, i + 1, Len(s))
    ELSE s

\* lines 101-104: rawQuery, cleanedQuery
CleanedQuery(text) == Trim(RemoveFirst(Trim(text), MENTION))

\* line 115
IsDeleteCommand(q) == q # <<>> /\ Head(q) = DEL

\* line 135
IsPotentialGhCommand(q) == q # <<>> /\ Head(q) = GH

\* ----------------------------------------------------- command grammars
\* \s* and \s+ over tokens
SkipSp(s) == TrimLeft(s)
HasSp(s) == s # <<>> /\ Head(s) = SP
StartsWord(s, w) == s # <<>> /\ Head(s) = w
IsRepoId(t) == t \in Words \/ t = OWNERREPO

\* RELEASE_REGEX, line 50:  ^gh>\s*release\s+(repo_id)\s*$
ReleaseMatch(q) ==
    /\ IsPotentialGhCommand(q)
    /\ LET r1 == SkipSp(Tail(q)) IN
       /\ StartsWord(r1, "release")
       /\ HasSp(Tail(r1))
       /\ LET r2 == SkipSp(Tail(r1)) IN
          /\ r2 # <<>>
          /\ IsRepoId(Head(r2))
          /\ SkipSp(Tail(r2)) = <<>>

\* PR_REVIEW_REGEX, line 51:
\*   ^gh>\s*review\s+pr\s+(owner)\/(repo)#(\d+)\s+#(workspace_slug)\s*$
PrReviewMatch(q) ==
    /\ IsPotentialGhCommand(q)
    /\ LET r1 == SkipSp(Tail(q)) IN
       /\ StartsWord(r1, "review")
       /\ HasSp(Tail(r1))
       /\ LET r2 == SkipSp(Tail(r1)) IN
          /\ StartsWord(r2, "pr")
          /\ HasSp(Tail(r2))
          /\ LET r3 == SkipSp(Tail(r2)) IN
             /\ Len(r3) >= 4
             /\ r3[1] = OWNERREPO
             /\ r3[2] = NUM
             /\ r3[3] = SP
             /\ LET r4 == SkipSp(SubSeq(r3, 3, Len(r3))) IN
                /\ r4 # <<>>
                /\ Head(r4) \in HashWords
                /\ SkipSp(Tail(r4)) = <<>>

\* ISSUE_ANALYSIS_REGEX, line 52:
\*   ^gh>\s*(?:analyze|summarize|explain)\s+issue\s+(?:(owner)\/(repo))?#(\d+)
\*      (?:\s*#(workspace_slug))?(?:\s+(user_prompt))?\s*$
\* IssueRest(q) is what follows the issue number, or <<"nomatch">>.
IssueRest(q) ==
    IF ~IsPotentialGhCommand(q) THEN <<"nomatch">>
    ELSE LET r1 == SkipSp(Tail(q)) IN
      IF ~(StartsWord(r1, "analyze") /\ HasSp(Tail(r1))) THEN <<"nomatch">>
      ELSE LET r2 == SkipSp(Tail(r1)) IN
        IF ~(StartsWord(r2, "issue") /\ HasSp(Tail(r2))) THEN <<"nomatch">>
        ELSE LET r3 == SkipSp(Tail(r2))
                 r4 == IF StartsWord(r3, OWNERREPO) THEN Tail(r3) ELSE r3
             IN  IF StartsWord(r4, NUM) THEN Tail(r4) ELSE <<"nomatch">>

\* the tail after the number matches (?:\s+(.+))?\s*$
PromptTailOk(s) == SkipSp(s) = <<>> \/ HasSp(s)

\* the optional group \s*#(workspace_slug) is taken (greedy) when the rest
\* of the pattern still matches after it
IssueTakesWs(q) ==
    LET r == SkipSp(IssueRest(q)) IN
      /\ r # <<>>
      /\ Head(r) \in HashWords
      /\ PromptTailOk(Tail(r))

IssueMatch(q) ==
    /\ IssueRest(q) # <<"nomatch">>
    /\ (IssueTakesWs(q) \/ PromptTailOk(IssueRest(q)))

\* workspace_slug capture of the issue grammar (explicitWs, line 179)
ExplicitWs(q) ==
    IF IssueMatch(q) /\ IssueTakesWs(q) THEN SlugOf(Head(SkipSp(IssueRest(q)))) ELSE NoWs

\* GENERIC_API_REGEX, line 53:  ^gh>\s*api\s+(api_query)\s*$
GenericApiMatch(q) ==
    /\ IsPotentialGhCommand(q)
    /\ LET r1 == SkipSp(Tail(q)) IN
       /\ StartsWord(r1, "api")
       /\ HasSp(Tail(r1))
       /\ SkipSp(Tail(r1)) # <<>>

\* WORKSPACE_OVERRIDE_REGEX, line 54: the first '#slug' token anywhere
HasOverride(q) == \E i \in 1..Len(q) : q[i] \in HashWords
\* the workspace the first override token names
OverrideWs(q) ==
    IF ~HasOverride(q) THEN NoWs
    ELSE LET i == CHOOSE i \in 1..Len(q) :
                    q[i] \in HashWords /\ \A j \in 1..(i - 1) : q[j] \notin HashWords
         IN  SlugOf(q[i])


\* ------------------------------------------------------------------ inputs
\* InboundEvent texts (raw, before normalisation)
MentionTexts ==
    { <<>>, <<MENTION>>, <<SP, MENTION, SP>>, <<MENTION, SP, MENTION>> }
DeleteTexts == { <<DEL>>, <<MENTION, SP, DEL, SP, "foo">> }
ChatTexts == { <<"foo">>, <<MENTION, SP, "foo", SP, "#W2">> }
CommandTexts ==
    { <<GH, SP, "release", SP, "foo">>,
      <<MENTION, SP, GH, "release", SP, OWNERREPO>>,
      <<GH, SP, "release">>,
      <<GH, SP, "review", SP, "pr", SP, OWNERREPO, NUM, SP, "#W1">>,
      <<GH, SP, "review", SP, "pr", SP, OWNERREPO, NUM>>,
      <<GH, SP, "analyze", SP, "issue", SP, NUM>>,
      <<GH, SP, "analyze", SP, "issue", SP, OWNERREPO, NUM, "#W2", SP, "foo">>,
      <<GH, SP, "analyze", SP, "issue", SP, NUM, SP, "foo">>,
      <<GH, SP, "analyze", SP, "issue", SP, "foo">>,
      <<GH, SP, "api", SP, "foo", SP, "pr">>,
      <<GH, SP, "api">>,
      <<GH>>,
      <<GH, SP, "foo">> }
Texts == MentionTexts \cup DeleteTexts \cup ChatTexts \cup CommandTexts

Channel == "C1"
\* ts of the inbound event, and ts of the root of the thread it may be in
EventTs == 11
ThreadRootTs == 5
\* InboundEvent: thread_ts is 0 when the event is not in a thread; octokit
\* tells whether the caller passed a client
Event(text, threadTs, octokit) ==
    [text |-> text, threadTs |-> threadTs, octokit |-> octokit]
Events ==
    { Event(t, 0, TRUE) : t \in Texts }
    \cup { Event(t, ThreadRootTs, TRUE) :
             t \in ChatTexts \cup
                   { <<GH, SP, "analyze", SP, "issue", SP, NUM>>,
                     <<GH, SP, "analyze", SP, "issue", SP, OWNERREPO, NUM, "#W2", SP, "foo">> } }
    \cup { Event(t, 0, FALSE) : t \in { <<GH, SP, "release", SP, "foo">>, <<GH>> } }

\* IntentResult values returned by detectIntentAndWorkspace; confidence in
\* tenths
Intents == {"none", "ask_faq", "other"}
IntentResults ==
    { [intent |-> "none", confidence |-> 0, suggestedWorkspace |-> NoWs],
      [intent |-> "other", confidence |-> 5, suggestedWorkspace |-> "W2"],
      [intent |-> "other", confidence |-> 7, suggestedWorkspace |-> NoWs],
      [intent |-> "ask_faq", confidence |-> 9, suggestedWorkspace |-> "W1"] }

\* ResponseSegment
Segment(type, content) == [type |-> type, content |-> content]
SegmentLists ==
    { <<>>,
      <<Segment("text", "x")>>,
      <<Segment("text", "x"), Segment("code", "x")>>,
      <<Segment("code", ""), Segment("text", "x"), Segment("other", "x")>> }

\* A reply of queryLlm: whether it is a string, the length of rawReply.trim(),
\* and what extractTextAndCode makes of it.
Reply(str, len, segs) == [str |-> str, len |-> len, segs |-> segs]
Replies ==
    { Reply(FALSE, 0, <<>>), Reply(TRUE, 0, <<>>),
      Reply(TRUE, 1, <<Segment("text", "x")>>),
      Reply(TRUE, 1, <<Segment("text", "x"), Segment("code", "x")>>),
      Reply(TRUE, 3, <<Segment("text", "x"), Segment("code", "x")>>) }
    \cup { Reply(TRUE, 2, s) : s \in SegmentLists }
NoReply == Reply(FALSE, 0, <<>>)

\* messages of the errors the collaborators raise
ServiceErrors == {"timeout"}
LlmErrors == {"timeout", "overloaded"}

\* ------------------------------------------------------------- Slack texts
Txt(kind, detail) == <<kind, detail>>
NullArgs == Txt("null", "")
NoMessage == Txt("none", "")
DeletedMessage == Txt("deleted", "")
ProcessingText == Txt("Processing", "")
ExecutorText == Txt("ExecutorReply", "")
FinalKinds ==
    { "NoToken", "NoClient", "InvalidPr", "InvalidIssue", "SetupError", "Unknown",
      "Stub", "Oops", "ExecutorReply" }

\* ------------------------------------------------------------------- state
VARIABLES
    cfg,        \* config.js: githubToken, intentRoutingEnabled, thresholds
    store,      \* ThreadMappingStore: key -> mapping
    threads,    \* LLM backend: thread slug -> workspace it was created in
    h           \* one record per running handleSlackMessageEventInternal

vars == <<cfg, store, threads, h>>

\* the handler invocations in flight: one per inbound event
Handlers == {1, 2}

Keys == {Channel} \X {ThreadRootTs, EventTs}
NoMapping == [ws |-> NoWs, thr |-> NoThread]
Mapping(ws, thr) == [ws |-> ws, thr |-> thr]
\* the mapping store is a table of rows
Row(key, ws, thr) == [key |-> key, ws |-> ws, thr |-> thr]
RowsOf(key) == {r \in store : r.key = key}

Call(op, txt, ws, thr, ok) ==
    [op |-> op, txt |-> txt, ws |-> ws, thr |-> thr, ok |-> ok, idx |-> 0]

Idle ==
    [ pc |-> "idle", text |-> <<>>, threadTs |-> 0, octokit |-> FALSE,
      cleanedQuery |-> <<>>, thinkingMessageTs |-> 0, placeholder |-> NoMessage,
      commandHandled |-> FALSE, llmWs |-> NoWs, llmThread |-> NoThread,
      intent |-> "none", confidence |-> 0,
      suggestedWorkspace |-> NoWs, finalWorkspaceSlug |-> NoWs,
      anythingLLMThreadSlug |-> NoThread, reply |-> NoReply, i |-> 0,
      lastMessageTs |-> FALSE, error |-> "", result |-> "none", calls |-> <<>> ]

\* line 105
ReplyTarget(hr) == IF hr.threadTs # 0 THEN hr.threadTs ELSE EventTs
KeyOf(hr) == <<Channel, ReplyTarget(hr)>>

\* ------------------------------------------------------------ configuration
\* intentConfidenceThreshold (tenths) and MIN_SUBSTANTIVE_RESPONSE_LENGTH
intentConfidenceThreshold == 7
MIN_SUBSTANTIVE_RESPONSE_LENGTH == 2
Configs == [githubToken : BOOLEAN, intentRoutingEnabled : BOOLEAN]

\* ------------------------------------------------------------------ helpers
Log(hr, call) == [hr EXCEPT !.calls = Append(@, call)]
Goto(hr, pc) == [hr EXCEPT !.pc = pc]
Return(hr) == [hr EXCEPT !.pc = "done", !.result = "returned"]
Throw(hr) == [hr EXCEPT !.pc = "done", !.result = "threw"]
Fail(hr, pc, msg) == [hr EXCEPT !.pc = pc, !.error = msg]
Set(e, hr) == h' = [h EXCEPT ![e] = hr]

\* chat.update / chat.delete answer message_not_found once the message is gone
SlackResults(hr) == IF hr.placeholder = DeletedMessage THEN {FALSE} ELSE BOOLEAN

\* updateOrDeleteThinkingMessage, lines 65-86: the records the handler can be
\* in after the call.  A failed chat.update / chat.delete is swallowed.
UpdateOrDeleteThinkingMessage(hr, updateArgs) ==
    IF hr.thinkingMessageTs = 0 THEN {hr}
    ELSE IF updateArgs # NullArgs
    THEN { [hr EXCEPT !.placeholder = IF ok THEN updateArgs ELSE @,
                      !.calls = Append(@, Call("update", updateArgs, NoWs, NoThread, ok))]
           : ok \in SlackResults(hr) }
    ELSE { [hr EXCEPT !.placeholder = IF ok THEN DeletedMessage ELSE @,
                      !.calls = Append(@, Call("delete", NullArgs, NoWs, NoThread, ok))]
           : ok \in SlackResults(hr) }

\* A command executor of commandHandler.js: what it returns (or that it
\* throws) and what it did to the placeholder it was handed.
ExecutorResults == {"true", "false", "throw"}
ExecutorEffects == {"untouched", "updated", "deleted"}
AfterExecutor(hr, op, res, eff) ==
    LET touched ==
            IF eff = "untouched" \/ hr.placeholder = DeletedMessage THEN hr.placeholder
            ELSE IF eff = "updated" THEN ExecutorText ELSE DeletedMessage
    IN  [hr EXCEPT !.placeholder = touched,
                   !.commandHandled = (res = "true"),
                   !.calls = Append(@, Call(op, Txt(eff, ""), hr.llmWs, hr.llmThread,
                                            res # "throw"))]

\* CommandPc without the unknown-command branch of lines 236-240
CommandPcNoUnknown(q, from) ==
    IF from <= 1 /\ ReleaseMatch(q) THEN "release"
    ELSE IF from <= 2 /\ PrReviewMatch(q) THEN "pr_review"
    ELSE IF from <= 3 /\ IssueMatch(q) THEN "issue_analysis"
    ELSE IF from <= 4 /\ GenericApiMatch(q) THEN "github_api"
    ELSE "detect_intent"

\* lines 150-240: the next grammar tried once the grammars before `from`
\* have not handled the message
CommandPc(q, from) ==
    IF from <= 1 /\ ReleaseMatch(q) THEN "release"
    ELSE IF from <= 2 /\ PrReviewMatch(q) THEN "pr_review"
    ELSE IF from <= 3 /\ IssueMatch(q) THEN "issue_analysis"
    ELSE IF from <= 4 /\ GenericApiMatch(q) THEN "github_api"
    ELSE "unknown_command"

\* lines 244, 433-435: after the command block
AfterCommands(hr) ==
    IF ~hr.commandHandled THEN Goto(hr, "detect_intent") ELSE Return(hr)

\* after a grammar's executor returned: commandHandled decides, lines 158,
\* 175, 227, 236
AfterGrammar(hr, from) ==
    IF ~hr.commandHandled THEN Goto(hr, CommandPc(hr.cleanedQuery, from))
    ELSE AfterCommands(hr)

\* AfterPlaceholder without the configuration checks of lines 139-146
AfterPlaceholderNoConfigCheck(hr) ==
    IF IsPotentialGhCommand(hr.cleanedQuery)
    THEN Goto(hr, CommandPc(hr.cleanedQuery, 1))
    ELSE AfterCommands(hr)

\* lines 133-147: after the placeholder is posted
AfterPlaceholder(hr) ==
    IF IsPotentialGhCommand(hr.cleanedQuery)
    THEN IF ~cfg.githubToken \/ ~hr.octokit THEN Goto(hr, "reject_github")
         ELSE Goto(hr, CommandPc(hr.cleanedQuery, 1))
    ELSE AfterCommands(hr)

\* ------------------------------------------------------------------ actions
\* Start without the empty-query return of lines 109-112
StartNoEmptyCheck(e, text, threadTs, octokit) ==
    /\ h[e].pc = "idle"
    /\ LET q == CleanedQuery(text)
           hr == [Idle EXCEPT !.text = text, !.threadTs = threadTs,
                              !.octokit = octokit, !.cleanedQuery = q,
                              !.result = "running"]
       IN  Set(e, IF IsDeleteCommand(q) THEN Goto(hr, "delete_last_message")
                  ELSE Goto(hr, "post_thinking"))
    /\ UNCHANGED <<cfg, store, threads>>

\* lines 96-120: the synchronous start of the handler
Start(e, text, threadTs, octokit) ==
    /\ h[e].pc = "idle"
    /\ LET q == CleanedQuery(text)
           hr == [Idle EXCEPT !.text = text, !.threadTs = threadTs,
                              !.octokit = octokit, !.cleanedQuery = q,
                              !.result = "running"]
       IN  Set(e, IF q = <<>> THEN Return(hr)
                  ELSE IF IsDeleteCommand(q) THEN Goto(hr, "delete_last_message")
                  ELSE Goto(hr, "post_thinking"))
    /\ UNCHANGED <<cfg, store, threads>>

Receive(e) == \E ev \in Events : Start(e, ev.text, ev.threadTs, ev.octokit)

\* lines 115-120: await handleDeleteLastMessageCommand(...)
DeleteLastMessage(e) ==
    /\ h[e].pc = "delete_last_message"
    /\ \E ok \in BOOLEAN :
         LET hr == Log(h[e], Call("deleteLast", NullArgs, NoWs, NoThread, ok))
         IN  Set(e, IF ok THEN Return(hr) ELSE Throw(hr))
    /\ UNCHANGED <<cfg, store, threads>>

\* PostThinking going on without a placeholder
PostThinkingNoAbort(e) ==
    /\ h[e].pc = "post_thinking"
    /\ \E res \in {"ts", "no_ts", "throws"} :
         LET hr == Log(h[e], Call("post", ProcessingText, NoWs, NoThread, res # "throws"))
         IN  Set(e, IF res = "ts"
                    THEN AfterPlaceholder([hr EXCEPT !.thinkingMessageTs = 1,
                                                     !.placeholder = ProcessingText])
                    ELSE AfterPlaceholder(hr))
    /\ UNCHANGED <<cfg, store, threads>>

\* lines 122-147: await slack.chat.postMessage("Processing...")
PostThinking(e) ==
    /\ h[e].pc = "post_thinking"
    /\ \E res \in {"ts", "no_ts", "throws"} :
         LET hr == Log(h[e], Call("post", ProcessingText, NoWs, NoThread, res # "throws"))
         IN  Set(e, IF res = "ts"
                    THEN AfterPlaceholder([hr EXCEPT !.thinkingMessageTs = 1,
                                                     !.placeholder = ProcessingText])
                    ELSE Return(hr))
    /\ UNCHANGED <<cfg, store, threads>>

\* lines 139-146: GitHub integration unconfigured
RejectGithub(e) ==
    /\ h[e].pc = "reject_github"
    /\ \E hr \in UpdateOrDeleteThinkingMessage(h[e],
                    IF ~cfg.githubToken THEN Txt("NoToken", "") ELSE Txt("NoClient", "")) :
         Set(e, Return(hr))
    /\ UNCHANGED <<cfg, store, threads>>

\* lines 151-155: await handleReleaseInfoCommand(...)
ReleaseInfo(e) ==
    /\ h[e].pc = "release"
    /\ \E res \in ExecutorResults, eff \in ExecutorEffects :
         LET hr == AfterExecutor(h[e], "release", res, eff)
         IN  Set(e, IF res = "throw" THEN Throw(hr) ELSE AfterGrammar(hr, 2))
    /\ UNCHANGED <<cfg, store, threads>>

\* line 164: owner && repo && !isNaN(prNum) && workspace_slug
PrParamsValid(q) == q # <<>> /\ SlugOf(q[Len(q)]) # NoWs

\* lines 158-172: await handlePrReviewCommand(...), or the format error
PrReview(e) ==
    /\ h[e].pc = "pr_review"
    /\ IF PrParamsValid(h[e].cleanedQuery)
       THEN \E res \in ExecutorResults, eff \in ExecutorEffects :
              LET hr == AfterExecutor(h[e], "prReview", res, eff)
              IN  Set(e, IF res = "throw" THEN Throw(hr) ELSE AfterGrammar(hr, 3))
       ELSE \E hr \in UpdateOrDeleteThinkingMessage(h[e], Txt("InvalidPr", "")) :
              Set(e, AfterGrammar([hr EXCEPT !.commandHandled = TRUE], 3))
    /\ UNCHANGED <<cfg, store, threads>>

\* lines 227-233: await handleGithubApiCommand(...)
GithubApi(e) ==
    /\ h[e].pc = "github_api"
    /\ \E res \in ExecutorResults, eff \in ExecutorEffects :
         LET hr == AfterExecutor(h[e], "githubApi", res, eff)
         IN  Set(e, IF res = "throw" THEN Throw(hr) ELSE AfterGrammar(hr, 5))
    /\ UNCHANGED <<cfg, store, threads>>

\* UnknownCommand without line 239 (commandHandled = true)
UnknownCommandNotHandled(e) ==
    /\ h[e].pc = "unknown_command"
    /\ \E hr \in UpdateOrDeleteThinkingMessage(h[e], Txt("Unknown", "")) :
         Set(e, AfterCommands(hr))
    /\ UNCHANGED <<cfg, store, threads>>

\* lines 236-240: unknown gh> command
UnknownCommand(e) ==
    /\ h[e].pc = "unknown_command"
    /\ \E hr \in UpdateOrDeleteThinkingMessage(h[e], Txt("Unknown", "")) :
         Set(e, AfterCommands([hr EXCEPT !.commandHandled = TRUE]))
    /\ UNCHANGED <<cfg, store, threads>>

\* ---------------------------------------------- collaborators' state changes
\* createNewAnythingLLMThread: the slug of the thread the backend creates
NewThread == CHOOSE t \in 1..(MaxThreads + 1) : t > MaxThreads \/ threads[t] = NoWs
CanCreate == NewThread <= MaxThreads

\* getAnythingLLMThreadMapping: the row of the key, or null
Lookup(key) ==
    IF RowsOf(key) = {} THEN NoMapping
    ELSE LET r == CHOOSE r \in RowsOf(key) : TRUE IN Mapping(r.ws, r.thr)

\* storeAnythingLLMThreadMapping: upsert, the key's row is replaced
Upsert(key, ws, thr) == (store \ RowsOf(key)) \cup {Row(key, ws, thr)}

\* how many store writes have taken effect so far, over all handlers
WritesOf(e) ==
    {i \in DOMAIN h[e].calls : h[e].calls[i].op = "storeMapping" /\ h[e].calls[i].ok}
WritesDone == Cardinality(UNION { {<<e, i>> : i \in WritesOf(e)} : e \in Handlers })
\* a storeMapping call that took effect, with its rank among the writes
StoreCall(ws, thr) ==
    [Call("storeMapping", NullArgs, ws, thr, TRUE) EXCEPT !.idx = WritesDone + 1]

\* ------------------------------------------------- issue analysis, 174-224
\* line 182: !isNaN(issueNum)
IssueNumberValid(q) == \E i \in 1..Len(q) : q[i] = NUM

\* IssueAnalysis with the mapped workspace preferred to the explicit one
IssueAnalysisMappedWins(e) ==
    /\ h[e].pc = "issue_analysis"
    /\ IF IssueNumberValid(h[e].cleanedQuery)
       THEN \/ \E msg \in ServiceErrors :
                 Set(e, Fail(Log(h[e], Call("getMapping", NullArgs, NoWs, NoThread, FALSE)),
                             "issue_setup_error", msg))
            \/ LET mapping == Lookup(KeyOf(h[e]))
                   hr == Log(h[e], Call("getMapping", NullArgs, mapping.ws,
                                        mapping.thr, TRUE))
                   explicitWs == ExplicitWs(hr.cleanedQuery)
               IN  Set(e, IF mapping # NoMapping
                          THEN [hr EXCEPT !.llmWs = mapping.ws,
                                          !.llmThread = mapping.thr,
                                          !.pc = "issue_executor"]
                          ELSE IF explicitWs # NoWs
                          THEN [hr EXCEPT !.llmWs = explicitWs,
                                          !.pc = "issue_create_thread"]
                          ELSE Goto(hr, "issue_determine_workspace"))
       ELSE \E hr \in UpdateOrDeleteThinkingMessage(h[e], Txt("InvalidIssue", "")) :
              Set(e, AfterGrammar([hr EXCEPT !.commandHandled = TRUE], 4))
    /\ UNCHANGED <<cfg, store, threads>>

\* IssueAnalysis storing an explicit workspace with the mapped thread
IssueAnalysisStoresExplicit(e) ==
    /\ h[e].pc = "issue_analysis"
    /\ IF IssueNumberValid(h[e].cleanedQuery)
       THEN \/ \E msg \in ServiceErrors :
                 Set(e, Fail(Log(h[e], Call("getMapping", NullArgs, NoWs, NoThread, FALSE)),
                             "issue_setup_error", msg))
            \/ LET mapping == Lookup(KeyOf(h[e]))
                   hr == Log(h[e], Call("getMapping", NullArgs, mapping.ws,
                                        mapping.thr, TRUE))
                   explicitWs == ExplicitWs(hr.cleanedQuery)
               IN  Set(e, IF mapping # NoMapping
                          THEN [hr EXCEPT !.llmWs = IF explicitWs # NoWs THEN explicitWs
                                                    ELSE mapping.ws,
                                          !.llmThread = mapping.thr,
                                          !.pc = IF explicitWs # NoWs
                                                 THEN "issue_store_mapping"
                                                 ELSE "issue_executor"]
                          ELSE IF explicitWs # NoWs
                          THEN [hr EXCEPT !.llmWs = explicitWs,
                                          !.pc = "issue_create_thread"]
                          ELSE Goto(hr, "issue_determine_workspace"))
       ELSE \E hr \in UpdateOrDeleteThinkingMessage(h[e], Txt("InvalidIssue", "")) :
              Set(e, AfterGrammar([hr EXCEPT !.commandHandled = TRUE], 4))
    /\ UNCHANGED <<cfg, store, threads>>

\* lines 186-202: await getAnythingLLMThreadMapping, or the number error
IssueAnalysis(e) ==
    /\ h[e].pc = "issue_analysis"
    /\ IF IssueNumberValid(h[e].cleanedQuery)
       THEN \/ \E msg \in ServiceErrors :
                 Set(e, Fail(Log(h[e], Call("getMapping", NullArgs, NoWs, NoThread, FALSE)),
                             "issue_setup_error", msg))
            \/ LET mapping == Lookup(KeyOf(h[e]))
                   hr == Log(h[e], Call("getMapping", NullArgs, mapping.ws,
                                        mapping.thr, TRUE))
                   explicitWs == ExplicitWs(hr.cleanedQuery)
               IN  Set(e, IF mapping # NoMapping
                          THEN [hr EXCEPT !.llmWs = IF explicitWs # NoWs THEN explicitWs
                                                    ELSE mapping.ws,
                                          !.llmThread = mapping.thr,
                                          !.pc = "issue_executor"]
                          ELSE IF explicitWs # NoWs
                          THEN [hr EXCEPT !.llmWs = explicitWs,
                                          !.pc = "issue_create_thread"]
                          ELSE Goto(hr, "issue_determine_workspace"))
       ELSE \E hr \in UpdateOrDeleteThinkingMessage(h[e], Txt("InvalidIssue", "")) :
              Set(e, AfterGrammar([hr EXCEPT !.commandHandled = TRUE], 4))
    /\ UNCHANGED <<cfg, store, threads>>

\* determineWorkspace: the suggestion when it gets one, else the user's or
\* channel's default, else the fallback, else null (NoWs).  Its parameter is
\* all it is given of the message.
ResolverResults(suggested) ==
    IF suggested # NoWs THEN {suggested} ELSE Workspaces \cup {NoWs}

\* the argument of a determineWorkspace call
ResolverArgs(suggested) == Txt("suggestedWorkspace", suggested)

\* lines 197-200: await determineWorkspace({suggestedWorkspace: null, ...})
IssueDetermineWorkspace(e) ==
    /\ h[e].pc = "issue_determine_workspace"
    /\ \/ \E ws \in ResolverResults(NoWs) :
            LET hr == Log(h[e], Call("determineWorkspace", ResolverArgs(NoWs),
                                     ws, NoThread, TRUE))
            IN  Set(e, IF ws # NoWs
                       THEN [hr EXCEPT !.llmWs = ws, !.pc = "issue_create_thread"]
                       ELSE Fail(hr, "issue_setup_error", "no workspace"))
       \/ \E msg \in ServiceErrors :
            Set(e, Fail(Log(h[e], Call("determineWorkspace", ResolverArgs(NoWs),
                                       NoWs, NoThread, FALSE)),
                        "issue_setup_error", msg))
    /\ UNCHANGED <<cfg, store, threads>>

\* lines 203-206: await createNewAnythingLLMThread(llmWs)
IssueCreateThread(e) ==
    /\ h[e].pc = "issue_create_thread"
    /\ \/ /\ CanCreate
          /\ threads' = [threads EXCEPT ![NewThread] = h[e].llmWs]
          /\ Set(e, [Log(h[e], Call("createThread", NullArgs, h[e].llmWs, NewThread, TRUE))
                       EXCEPT !.llmThread = NewThread, !.pc = "issue_store_mapping"])
       \/ /\ UNCHANGED threads
          /\ Set(e, Fail(Log(h[e], Call("createThread", NullArgs, h[e].llmWs, NoThread, TRUE)),
                         "issue_setup_error", "no thread"))
       \/ /\ UNCHANGED threads
          /\ \E msg \in ServiceErrors :
               Set(e, Fail(Log(h[e], Call("createThread", NullArgs, h[e].llmWs, NoThread, FALSE)),
                           "issue_setup_error", msg))
    /\ UNCHANGED <<cfg, store>>

\* line 207: await storeAnythingLLMThreadMapping(...)
IssueStoreMapping(e) ==
    /\ h[e].pc = "issue_store_mapping"
    /\ \/ /\ store' = Upsert(KeyOf(h[e]), h[e].llmWs, h[e].llmThread)
          /\ Set(e, Goto(Log(h[e], StoreCall(h[e].llmWs, h[e].llmThread)),
                          "issue_executor"))
       \/ /\ UNCHANGED store
          /\ \E msg \in ServiceErrors :
               Set(e, Fail(Log(h[e], Call("storeMapping", NullArgs, h[e].llmWs,
                                          h[e].llmThread, FALSE)), "issue_setup_error", msg))
    /\ UNCHANGED <<cfg, threads>>

\* line 212: await handleIssueAnalysisCommand(..., llmWs, llmThread), in the try
IssueExecutor(e) ==
    /\ h[e].pc = "issue_executor"
    /\ \E res \in ExecutorResults, eff \in ExecutorEffects :
         LET hr == AfterExecutor(h[e], "issueAnalysis", res, eff)
         IN  Set(e, IF res = "throw" THEN Fail(hr, "issue_setup_error", "executor")
                    ELSE AfterGrammar(hr, 4))
    /\ UNCHANGED <<cfg, store, threads>>

\* IssueSetupError without line 216 (commandHandled = true)
IssueSetupErrorNotHandled(e) ==
    /\ h[e].pc = "issue_setup_error"
    /\ \E hr \in UpdateOrDeleteThinkingMessage(h[e], Txt("SetupError", h[e].error)) :
         Set(e, AfterGrammar(hr, 4))
    /\ UNCHANGED <<cfg, store, threads>>

\* lines 213-217: catch (contextError)
IssueSetupError(e) ==
    /\ h[e].pc = "issue_setup_error"
    /\ \E hr \in UpdateOrDeleteThinkingMessage(h[e], Txt("SetupError", h[e].error)) :
         Set(e, AfterGrammar([hr EXCEPT !.commandHandled = TRUE], 4))
    /\ UNCHANGED <<cfg, store, threads>>

\* ------------------------------------------------ intent and LLM path, 244-432
\* lines 252-299: await detectIntentAndWorkspace(cleanedQuery), then routing.
\* Building intentContext (lines 262-267) reads the identifier intentResult,
\* which nothing declares: a ReferenceError, caught at line 418.  The switch of
\* lines 269-290 is therefore never reached.
DetectIntent(e) ==
    /\ h[e].pc = "detect_intent"
    /\ \/ \E msg \in ServiceErrors :
            Set(e, Fail(Log(h[e], Call("detectIntent", NullArgs, NoWs, NoThread, FALSE)),
                        "catch", msg))
       \/ \E r \in IntentResults :
            LET hr == [Log(h[e], Call("detectIntent", Txt(r.intent, ""),
                                      r.suggestedWorkspace, NoThread, TRUE))
                         EXCEPT !.intent = r.intent, !.confidence = r.confidence,
                                !.suggestedWorkspace = r.suggestedWorkspace]
            IN  Set(e, IF /\ cfg.intentRoutingEnabled
                          /\ r.intent # "none"
                          /\ r.confidence >= intentConfidenceThreshold
                       THEN Fail(hr, "catch", "intentResult is not defined")
                       ELSE Goto(hr, "determine_workspace"))
    /\ UNCHANGED <<cfg, store, threads>>

\* DetermineWorkspace without the null check of lines 311-313
DetermineWorkspaceNoNullCheck(e) ==
    /\ h[e].pc = "determine_workspace"
    /\ \/ \E ws \in ResolverResults(h[e].suggestedWorkspace) :
            Set(e, [Log(h[e], Call("determineWorkspace",
                                   ResolverArgs(h[e].suggestedWorkspace),
                                   ws, NoThread, TRUE))
                      EXCEPT !.finalWorkspaceSlug = ws, !.pc = "get_mapping"])
       \/ \E msg \in ServiceErrors :
            Set(e, Fail(Log(h[e], Call("determineWorkspace",
                                       ResolverArgs(h[e].suggestedWorkspace),
                                       NoWs, NoThread, FALSE)),
                        "catch", msg))
    /\ UNCHANGED <<cfg, store, threads>>

\* lines 305-313: await determineWorkspace({suggestedWorkspace, userId, channelId})
DetermineWorkspace(e) ==
    /\ h[e].pc = "determine_workspace"
    /\ \/ \E ws \in ResolverResults(h[e].suggestedWorkspace) :
            LET hr == Log(h[e], Call("determineWorkspace",
                                     ResolverArgs(h[e].suggestedWorkspace),
                                     ws, NoThread, TRUE))
            IN  Set(e, IF ws # NoWs
                       THEN [hr EXCEPT !.finalWorkspaceSlug = ws, !.pc = "get_mapping"]
                       ELSE Fail(hr, "catch", "no workspace"))
       \/ \E msg \in ServiceErrors :
            Set(e, Fail(Log(h[e], Call("determineWorkspace",
                                       ResolverArgs(h[e].suggestedWorkspace),
                                       NoWs, NoThread, FALSE)),
                        "catch", msg))
    /\ UNCHANGED <<cfg, store, threads>>

\* GetMapping with the mapped thread never reused
GetMappingNoReuse(e) ==
    /\ h[e].pc = "get_mapping"
    /\ \/ \E msg \in ServiceErrors :
            Set(e, Fail(Log(h[e], Call("getMapping", NullArgs, NoWs, NoThread, FALSE)),
                        "catch", msg))
       \/ LET mapping == Lookup(KeyOf(h[e]))
              hr == Log(h[e], Call("getMapping", NullArgs, mapping.ws, mapping.thr, TRUE))
          IN  Set(e, Goto(hr, "create_thread"))
    /\ UNCHANGED <<cfg, store, threads>>

\* GetMapping with the workspace comparison of line 320 left out
GetMappingAnyWorkspace(e) ==
    /\ h[e].pc = "get_mapping"
    /\ \/ \E msg \in ServiceErrors :
            Set(e, Fail(Log(h[e], Call("getMapping", NullArgs, NoWs, NoThread, FALSE)),
                        "catch", msg))
       \/ LET mapping == Lookup(KeyOf(h[e]))
              hr == Log(h[e], Call("getMapping", NullArgs, mapping.ws, mapping.thr, TRUE))
          IN  Set(e, IF mapping # NoMapping
                     THEN [hr EXCEPT !.anythingLLMThreadSlug = mapping.thr,
                                     !.pc = "update_thinking"]
                     ELSE Goto(hr, "create_thread"))
    /\ UNCHANGED <<cfg, store, threads>>

\* lines 318-325: await getAnythingLLMThreadMapping(channelId, replyTarget)
GetMapping(e) ==
    /\ h[e].pc = "get_mapping"
    /\ \/ \E msg \in ServiceErrors :
            Set(e, Fail(Log(h[e], Call("getMapping", NullArgs, NoWs, NoThread, FALSE)),
                        "catch", msg))
       \/ LET mapping == Lookup(KeyOf(h[e]))
              hr == Log(h[e], Call("getMapping", NullArgs, mapping.ws, mapping.thr, TRUE))
          IN  Set(e, IF mapping # NoMapping /\ mapping.ws = hr.finalWorkspaceSlug
                     THEN [hr EXCEPT !.anythingLLMThreadSlug = mapping.thr,
                                     !.pc = "update_thinking"]
                     ELSE Goto(hr, "create_thread"))
    /\ UNCHANGED <<cfg, store, threads>>

\* lines 327-328: await createNewAnythingLLMThread(finalWorkspaceSlug)
CreateThread(e) ==
    /\ h[e].pc = "create_thread"
    /\ \/ /\ CanCreate
          /\ threads' = [threads EXCEPT ![NewThread] = h[e].finalWorkspaceSlug]
          /\ Set(e, [Log(h[e], Call("createThread", NullArgs, h[e].finalWorkspaceSlug,
                                    NewThread, TRUE))
                       EXCEPT !.anythingLLMThreadSlug = NewThread, !.pc = "store_mapping"])
       \/ /\ UNCHANGED threads
          /\ Set(e, Fail(Log(h[e], Call("createThread", NullArgs, h[e].finalWorkspaceSlug,
                                        NoThread, TRUE)), "catch", "no thread"))
       \/ /\ UNCHANGED threads
          /\ \E msg \in ServiceErrors :
               Set(e, Fail(Log(h[e], Call("createThread", NullArgs, h[e].finalWorkspaceSlug,
                                          NoThread, FALSE)), "catch", msg))
    /\ UNCHANGED <<cfg, store>>

\* StoreMapping adding a row beside the key's earlier row
StoreMappingAppends(e) ==
    /\ h[e].pc = "store_mapping"
    /\ store' = store \cup {Row(KeyOf(h[e]), h[e].finalWorkspaceSlug,
                                h[e].anythingLLMThreadSlug)}
    /\ Set(e, Goto(Log(h[e], StoreCall(h[e].finalWorkspaceSlug,
                                        h[e].anythingLLMThreadSlug)),
                    "update_thinking"))
    /\ UNCHANGED <<cfg, threads>>

\* StoreMapping writing only when the key has no row yet
StoreMappingKeepsFirst(e) ==
    /\ h[e].pc = "store_mapping"
    /\ store' = IF RowsOf(KeyOf(h[e])) = {}
                THEN Upsert(KeyOf(h[e]), h[e].finalWorkspaceSlug,
                            h[e].anythingLLMThreadSlug)
                ELSE store
    /\ Set(e, Goto(Log(h[e], StoreCall(h[e].finalWorkspaceSlug,
                                        h[e].anythingLLMThreadSlug)),
                    "update_thinking"))
    /\ UNCHANGED <<cfg, threads>>

\* line 330: await storeAnythingLLMThreadMapping(...)
StoreMapping(e) ==
    /\ h[e].pc = "store_mapping"
    /\ \/ /\ store' = Upsert(KeyOf(h[e]), h[e].finalWorkspaceSlug, h[e].anythingLLMThreadSlug)
          /\ Set(e, Goto(Log(h[e], StoreCall(h[e].finalWorkspaceSlug,
                                              h[e].anythingLLMThreadSlug)),
                          "update_thinking"))
       \/ /\ UNCHANGED store
          /\ \E msg \in ServiceErrors :
               Set(e, Fail(Log(h[e], Call("storeMapping", NullArgs, h[e].finalWorkspaceSlug,
                                          h[e].anythingLLMThreadSlug, FALSE)), "catch", msg))
    /\ UNCHANGED <<cfg, threads>>

\* line 335: the placeholder shows "Thinking in workspace ..."
UpdateThinking(e) ==
    /\ h[e].pc = "update_thinking"
    /\ \E hr \in UpdateOrDeleteThinkingMessage(h[e],
                    Txt("Thinking", h[e].finalWorkspaceSlug)) :
         Set(e, Goto(hr, "query_llm"))
    /\ UNCHANGED <<cfg, store, threads>>

\* lines 337-343: await queryLlm(finalWorkspaceSlug, anythingLLMThreadSlug, text)
QueryLlm(e) ==
    /\ h[e].pc = "query_llm"
    /\ \/ \E msg \in LlmErrors :
            Set(e, Fail(Log(h[e], Call("queryLlm", Txt("error", msg), h[e].finalWorkspaceSlug,
                                       h[e].anythingLLMThreadSlug, FALSE)), "catch", msg))
       \/ \E r \in Replies :
            Set(e, [Log(h[e], Call("queryLlm", NullArgs, h[e].finalWorkspaceSlug,
                                   h[e].anythingLLMThreadSlug, TRUE))
                      EXCEPT !.reply = r, !.pc = "delete_thinking"])
    /\ UNCHANGED <<cfg, store, threads>>

\* line 343: trimmedReply, by its length
TrimmedLength(r) == IF r.str THEN r.len ELSE 0
\* line 355
IsSubstantive(r) == TrimmedLength(r) >= MIN_SUBSTANTIVE_RESPONSE_LENGTH
\* lines 374-384: a segment gives a text to post unless it is empty or untyped
HasSegmentText(seg) == seg.type \in {"text", "code"} /\ seg.content # ""

\* AfterSegments without the lastMessageTs condition of line 401
AfterSegmentsNoTsCheck(hr) ==
    IF IsSubstantive(hr.reply) THEN Goto(hr, "post_feedback")
    ELSE Goto(hr, "finally")

\* AfterSegments without the isSubstantive condition of line 401
AfterSegmentsAnyLength(hr) ==
    IF hr.lastMessageTs THEN Goto(hr, "post_feedback")
    ELSE Goto(hr, "finally")

\* lines 400-401 and the end of the try block
AfterSegments(hr) ==
    IF hr.lastMessageTs /\ IsSubstantive(hr.reply) THEN Goto(hr, "post_feedback")
    ELSE Goto(hr, "finally")

\* lines 371-384: the loop up to its next post
RECURSIVE SegmentLoop(_, _)
SegmentLoop(hr, i) ==
    IF i > Len(hr.reply.segs) THEN AfterSegments(hr)
    ELSE IF ~HasSegmentText(hr.reply.segs[i]) THEN SegmentLoop(hr, i + 1)
    ELSE [hr EXCEPT !.i = i, !.pc = "post_segment"]

\* line 396
AfterSegmentPost(hr) ==
    IF Len(hr.reply.segs) > 1 /\ hr.i < Len(hr.reply.segs) THEN Goto(hr, "segment_delay")
    ELSE SegmentLoop(hr, hr.i + 1)

\* AfterDelete without the empty-reply branch of lines 349-352
AfterDeleteNoEmptyCheck(hr) ==
    IF Len(hr.reply.segs) = 0 THEN Goto(hr, "post_raw")
    ELSE SegmentLoop(hr, 1)

\* AfterDelete without the raw fallback of lines 361-369
AfterDeleteNoRawFallback(hr) ==
    IF TrimmedLength(hr.reply) = 0 THEN Goto(hr, "post_empty")
    ELSE SegmentLoop(hr, 1)

\* lines 349-370: after the placeholder is deleted
AfterDelete(hr) ==
    IF TrimmedLength(hr.reply) = 0 THEN Goto(hr, "post_empty")
    ELSE IF Len(hr.reply.segs) = 0 THEN Goto(hr, "post_raw")
    ELSE SegmentLoop(hr, 1)

\* DeleteThinking without line 346 (thinkingMessageTs = null)
DeleteThinkingKeepsTs(e) ==
    /\ h[e].pc = "delete_thinking"
    /\ \E hr \in UpdateOrDeleteThinkingMessage(h[e], NullArgs) :
         Set(e, AfterDelete(hr))
    /\ UNCHANGED <<cfg, store, threads>>

\* lines 345-346: delete the placeholder, mark it deleted
DeleteThinking(e) ==
    /\ h[e].pc = "delete_thinking"
    /\ \E hr \in UpdateOrDeleteThinkingMessage(h[e], NullArgs) :
         Set(e, AfterDelete([hr EXCEPT !.thinkingMessageTs = 0]))
    /\ UNCHANGED <<cfg, store, threads>>

\* chat.postMessage answers with the message's ts, or throws
PostResults == {"ts", "throws"}
PostCall(kind, detail, idx, res) ==
    [Call("post", Txt(kind, detail), NoWs, NoThread, res # "throws") EXCEPT !.idx = idx]

\* line 351: the "empty response" notice
PostEmpty(e) ==
    /\ h[e].pc = "post_empty"
    /\ \E res \in PostResults :
         LET hr == Log(h[e], PostCall("Empty", "", 0, res))
         IN  Set(e, IF res = "throws" THEN Fail(hr, "catch", "post failed")
                    ELSE Goto(hr, "finally"))
    /\ UNCHANGED <<cfg, store, threads>>

\* lines 361-369: no segments, post the raw trimmed reply
PostRaw(e) ==
    /\ h[e].pc = "post_raw"
    /\ \E res \in PostResults :
         LET hr == Log(h[e], PostCall("Raw", "", 0, res))
         IN  Set(e, IF res = "throws" THEN Fail(hr, "catch", "post failed")
                    ELSE AfterSegments([hr EXCEPT !.lastMessageTs = (res = "ts")]))
    /\ UNCHANGED <<cfg, store, threads>>

\* PostSegment leaving a failed block post without its retry
PostSegmentNoRetry(e) ==
    /\ h[e].pc = "post_segment"
    /\ \E block \in BOOLEAN, res \in PostResults :
         LET hr == Log(h[e], PostCall("Segment", IF block THEN "block" ELSE "raw",
                                      h[e].i, res))
         IN  Set(e, IF res = "throws" THEN AfterSegmentPost(hr)
                    ELSE AfterSegmentPost([hr EXCEPT !.lastMessageTs = (res = "ts")]))
    /\ UNCHANGED <<cfg, store, threads>>

\* lines 385-395: post segment i, with its block when markdownToRichTextBlock
\* gave one
PostSegment(e) ==
    /\ h[e].pc = "post_segment"
    /\ \E block \in BOOLEAN, res \in PostResults :
         LET hr == Log(h[e], PostCall("Segment", IF block THEN "block" ELSE "raw",
                                      h[e].i, res))
         IN  Set(e, IF res = "throws"
                    THEN IF block THEN Goto(hr, "retry_segment") ELSE AfterSegmentPost(hr)
                    ELSE AfterSegmentPost([hr EXCEPT !.lastMessageTs = (res = "ts")]))
    /\ UNCHANGED <<cfg, store, threads>>

\* line 394: the retry without the block
RetrySegment(e) ==
    /\ h[e].pc = "retry_segment"
    /\ \E res \in PostResults :
         LET hr == Log(h[e], PostCall("Segment", "retry", h[e].i, res))
         IN  Set(e, IF res = "throws" THEN AfterSegmentPost(hr)
                    ELSE AfterSegmentPost([hr EXCEPT !.lastMessageTs = (res = "ts")]))
    /\ UNCHANGED <<cfg, store, threads>>

\* line 396: the 500 ms pause between two segments
SegmentDelay(e) ==
    /\ h[e].pc = "segment_delay"
    /\ Set(e, SegmentLoop(h[e], h[e].i + 1))
    /\ UNCHANGED <<cfg, store, threads>>

\* lines 401-414: the feedback buttons
PostFeedback(e) ==
    /\ h[e].pc = "post_feedback"
    /\ \E res \in PostResults :
         Set(e, Goto(Log(h[e], PostCall("Feedback", "", 0, res)), "finally"))
    /\ UNCHANGED <<cfg, store, threads>>

\* CatchError without line 422 (thinkingMessageTs = null)
CatchErrorKeepsTs(e) ==
    /\ h[e].pc = "catch"
    /\ IF h[e].thinkingMessageTs # 0
       THEN \E hr \in UpdateOrDeleteThinkingMessage(h[e], Txt("Oops", h[e].error)) :
              Set(e, Goto(hr, "finally"))
       ELSE \E res \in PostResults :
              Set(e, Goto(Log(h[e], PostCall("Oops", h[e].error, 0, res)), "finally"))
    /\ UNCHANGED <<cfg, store, threads>>

\* lines 418-425: catch (error)
CatchError(e) ==
    /\ h[e].pc = "catch"
    /\ IF h[e].thinkingMessageTs # 0
       THEN \E hr \in UpdateOrDeleteThinkingMessage(h[e], Txt("Oops", h[e].error)) :
              Set(e, Goto([hr EXCEPT !.thinkingMessageTs = 0], "finally"))
       ELSE \E res \in PostResults :
              Set(e, Goto(Log(h[e], PostCall("Oops", h[e].error, 0, res)), "finally"))
    /\ UNCHANGED <<cfg, store, threads>>

\* lines 426-432: finally
Finally(e) ==
    /\ h[e].pc = "finally"
    /\ \E hr \in UpdateOrDeleteThinkingMessage(h[e], NullArgs) :
         Set(e, Return(hr))
    /\ UNCHANGED <<cfg, store, threads>>

\* ------------------------------------------------------------ specification
\* The mapping store is a database that outlives the process: the
\* conversation of thread ThreadRootTs was mapped to thread 1 of workspace W1
\* by an earlier message; the conversation of EventTs is new.
InitialStore == {Row(<<Channel, ThreadRootTs>>, "W1", 1)}
InitialThreads == [t \in 1..MaxThreads |-> IF t = 1 THEN "W1" ELSE NoWs]

Init ==
    /\ cfg \in Configs
    /\ store = InitialStore
    /\ threads = InitialThreads
    /\ h = [e \in Handlers |-> Idle]

Handle(e) ==
    \/ Receive(e)
    \/ DeleteLastMessage(e)
    \/ PostThinking(e)
    \/ RejectGithub(e)
    \/ ReleaseInfo(e)
    \/ PrReview(e)
    \/ IssueAnalysis(e)
    \/ IssueDetermineWorkspace(e)
    \/ IssueCreateThread(e)
    \/ IssueStoreMapping(e)
    \/ IssueExecutor(e)
    \/ IssueSetupError(e)
    \/ GithubApi(e)
    \/ UnknownCommand(e)
    \/ DetectIntent(e)
    \/ DetermineWorkspace(e)
    \/ GetMapping(e)
    \/ CreateThread(e)
    \/ StoreMapping(e)
    \/ UpdateThinking(e)
    \/ QueryLlm(e)
    \/ DeleteThinking(e)
    \/ PostEmpty(e)
    \/ PostRaw(e)
    \/ PostSegment(e)
    \/ RetrySegment(e)
    \/ SegmentDelay(e)
    \/ PostFeedback(e)
    \/ CatchError(e)
    \/ Finally(e)

\* one event, handled alone
Next == Handle(1)

Spec == Init /\ [][Next]_vars

\* Two events of one conversation handled at the same time: both are replies
\* in the thread of ThreadRootTs, which no message was answered in before (the
\* store has no row, the backend no thread).  The handlers interleave at their
\* awaits.  Slack accepts every call, the classifier finds no intent and the
\* LLM, when it answers, gives a one-segment reply below the substantive
\* length; the resolver, the store, the backend and the LLM may fail.
ConcEvents == {Event(<<"foo">>, ThreadRootTs, TRUE)}
ShortReply == Reply(TRUE, 1, <<Segment("text", "x")>>)
Accepted(hr) == hr.calls[Len(hr.calls)].ok

InitConc ==
    /\ cfg = [githubToken |-> TRUE, intentRoutingEnabled |-> FALSE]
    /\ store = {}
    /\ threads = [t \in 1..MaxThreads |-> NoWs]
    /\ h = [e \in Handlers |-> Idle]

HandleConc(e) ==
    \/ \E ev \in ConcEvents : Start(e, ev.text, ev.threadTs, ev.octokit)
    \/ /\ PostThinking(e)
       /\ Accepted(h'[e])
    \/ /\ DetectIntent(e)
       /\ Accepted(h'[e])
       /\ h'[e].intent = "none"
    \/ DetermineWorkspace(e)
    \/ GetMapping(e)
    \/ CreateThread(e)
    \/ StoreMapping(e)
    \/ /\ UpdateThinking(e)
       /\ Accepted(h'[e])
    \/ /\ QueryLlm(e)
       /\ Accepted(h'[e]) => h'[e].reply = ShortReply
    \/ /\ DeleteThinking(e)
       /\ Accepted(h'[e])
    \/ /\ PostSegment(e)
       /\ Accepted(h'[e])
    \/ /\ CatchError(e)
       /\ Accepted(h'[e])
    \/ Finally(e)

NextConc == \E e \in Handlers : HandleConc(e)

SpecConc == InitConc /\ [][NextConc]_vars

\* Two events of one conversation handled at the same time, each a chat
\* message or an issue-analysis command, with or without an explicit
\* workspace.  As in SpecConc the conversation is new, Slack accepts every
\* call, the classifier finds no intent and the LLM gives a short reply; the
\* issue executor handles the command or throws.
MixedEvents ==
    ConcEvents \cup
    { Event(<<GH, SP, "analyze", SP, "issue", SP, NUM>>, ThreadRootTs, TRUE),
      Event(<<GH, SP, "analyze", SP, "issue", SP, OWNERREPO, NUM, "#W2", SP, "foo">>,
            ThreadRootTs, TRUE) }

HandleMixed(e) ==
    \/ \E ev \in MixedEvents : Start(e, ev.text, ev.threadTs, ev.octokit)
    \/ /\ PostThinking(e)
       /\ Accepted(h'[e])
    \/ IssueAnalysis(e)
    \/ IssueDetermineWorkspace(e)
    \/ IssueCreateThread(e)
    \/ IssueStoreMapping(e)
    \/ /\ IssueExecutor(e)
       /\ h'[e].pc # "unknown_command"
       /\ h'[e].placeholder = ExecutorText
    \/ /\ IssueSetupError(e)
       /\ Accepted(h'[e])
    \/ /\ DetectIntent(e)
       /\ Accepted(h'[e])
       /\ h'[e].intent = "none"
    \/ DetermineWorkspace(e)
    \/ GetMapping(e)
    \/ CreateThread(e)
    \/ StoreMapping(e)
    \/ /\ UpdateThinking(e)
       /\ Accepted(h'[e])
    \/ /\ QueryLlm(e)
       /\ Accepted(h'[e]) => h'[e].reply = ShortReply
    \/ /\ DeleteThinking(e)
       /\ Accepted(h'[e])
    \/ /\ PostSegment(e)
       /\ Accepted(h'[e])
    \/ /\ CatchError(e)
       /\ Accepted(h'[e])
    \/ Finally(e)

NextMixed == \E e \in Handlers : HandleMixed(e)

SpecMixed == InitConc /\ [][NextMixed]_vars

\* ------------------------------------------------------- reading the record
CallIdx(hr) == 1..Len(hr.calls)
Called(hr, op) == \E i \in CallIdx(hr) : hr.calls[i].op = op
CallsOf(hr, op) == {i \in CallIdx(hr) : hr.calls[i].op = op}
Finished(hr) == hr.pc = "done"
PlaceholderPosted(hr) ==
    /\ hr.calls # <<>>
    /\ hr.calls[1] = Call("post", ProcessingText, NoWs, NoThread, TRUE)
    /\ hr.placeholder # NoMessage
ExecutorOps == {"release", "prReview", "issueAnalysis", "githubApi"}
IsFinalUpdate(c) == c.op = "update" /\ c.txt[1] \in FinalKinds
\* the handler asked Slack to release the placeholder, or the message is
\* final or gone (an executor did it)
PlaceholderReleased(hr) ==
    \/ \E i \in CallIdx(hr) : hr.calls[i].op = "delete" \/ IsFinalUpdate(hr.calls[i])
    \/ hr.placeholder = DeletedMessage
    \/ hr.placeholder[1] \in FinalKinds

\* ------------------------------------------------------------------- claims
\* C1: whenever the placeholder was posted, by the time the handler returns
\* the placeholder has been updated to a final message or deleted, on every
\* exit path.
C1_PlaceholderReleasedOnReturn ==
    \A e \in Handlers :
        (Finished(h[e]) /\ PlaceholderPosted(h[e])) => PlaceholderReleased(h[e])

\* C2: the handler never propagates an exception to its caller.
C2_NeverThrows == \A e \in Handlers : h[e].result # "threw"

\* C3: when queryLlm raises, the only thing the handler then does to the
\* placeholder is one update to the apology carrying the error's message: no
\* delete and no second update follows.
C3_LlmErrorUpdatesOnce ==
    \A e \in Handlers :
        \A i \in CallsOf(h[e], "queryLlm") :
            ~h[e].calls[i].ok =>
                /\ Len(h[e].calls) <= i + 1
                /\ Finished(h[e]) => Len(h[e].calls) = i + 1
                /\ Len(h[e].calls) = i + 1 =>
                     /\ h[e].calls[i + 1].op = "update"
                     /\ h[e].calls[i + 1].txt = Txt("Oops", h[e].calls[i].txt[2])
                     /\ h[e].thinkingMessageTs = 0
                     /\ h[e].calls[i + 1].ok => h[e].placeholder = h[e].calls[i + 1].txt

C3_Witness ==
    \E e \in Handlers :
        /\ Finished(h[e])
        /\ \E i \in CallsOf(h[e], "queryLlm") : ~h[e].calls[i].ok
        /\ h[e].placeholder = Txt("Oops", "overloaded")

\* C4: when detectIntentAndWorkspace fails, the handler still resolves the
\* workspace, resolves the thread mapping and queries the LLM.
C4_IntentFailureStillQueries ==
    \A e \in Handlers :
        (Finished(h[e]) /\ \E i \in CallsOf(h[e], "detectIntent") : ~h[e].calls[i].ok)
            => /\ Called(h[e], "determineWorkspace")
               /\ Called(h[e], "getMapping")
               /\ Called(h[e], "queryLlm")

\* the mapping the LLM path read for the conversation: the getMapping call
\* that succeeded, if any
ReadMapping(hr, i) ==
    /\ hr.calls[i].op = "getMapping"
    /\ hr.calls[i].ok
    /\ hr.finalWorkspaceSlug # NoWs
    /\ hr.calls[i].ws # NoWs

\* C5: on the LLM path, when the conversation is mapped to (W, T) and the
\* message resolves to W, the LLM is queried with T, no thread is created and
\* the stored mapping stays as it was.
C5_SameWorkspaceReusesThread ==
    \A e \in Handlers :
        \A i \in CallIdx(h[e]) :
            (ReadMapping(h[e], i) /\ h[e].calls[i].ws = h[e].finalWorkspaceSlug) =>
                /\ ~Called(h[e], "createThread")
                /\ ~Called(h[e], "storeMapping")
                /\ Lookup(KeyOf(h[e])) = Mapping(h[e].calls[i].ws, h[e].calls[i].thr)
                /\ store = InitialStore
                /\ \A j \in CallsOf(h[e], "queryLlm") :
                     /\ h[e].calls[j].ws = h[e].calls[i].ws
                     /\ h[e].calls[j].thr = h[e].calls[i].thr
                /\ Finished(h[e]) => Called(h[e], "queryLlm")

C5_Witness ==
    \E e \in Handlers :
        /\ Finished(h[e])
        /\ \E i \in CallIdx(h[e]) :
             ReadMapping(h[e], i) /\ h[e].calls[i].ws = h[e].finalWorkspaceSlug
        /\ \E j \in CallsOf(h[e], "queryLlm") : h[e].calls[j].ok /\ h[e].calls[j].thr = 1

\* C6: on the LLM path, when the conversation is mapped to W and the message
\* resolves to another workspace W2, exactly one thread creation is made, in
\* W2, and the mapping is overwritten to (W2, new thread) before the LLM is
\* queried with (W2, new thread).
C6_WorkspaceChangeCreatesOneThread ==
    \A e \in Handlers :
        \A i \in CallIdx(h[e]) :
            (ReadMapping(h[e], i) /\ h[e].calls[i].ws # h[e].finalWorkspaceSlug) =>
                /\ Cardinality(CallsOf(h[e], "createThread")) <= 1
                /\ Len(h[e].calls) > i =>
                     /\ h[e].calls[i + 1].op = "createThread"
                     /\ h[e].calls[i + 1].ws = h[e].finalWorkspaceSlug
                /\ Finished(h[e]) => Len(h[e].calls) > i
                /\ \A j \in CallsOf(h[e], "queryLlm") :
                     /\ j > i + 2
                     /\ h[e].calls[i + 1].ok
                     /\ h[e].calls[i + 1].thr # NoThread
                     /\ h[e].calls[i + 1].thr # h[e].calls[i].thr
                     /\ threads[h[e].calls[i + 1].thr] = h[e].finalWorkspaceSlug
                     /\ h[e].calls[i + 2].op = "storeMapping"
                     /\ h[e].calls[i + 2].ok
                     /\ h[e].calls[j].ws = h[e].finalWorkspaceSlug
                     /\ h[e].calls[j].thr = h[e].calls[i + 1].thr
                     /\ Lookup(KeyOf(h[e])) =
                          Mapping(h[e].finalWorkspaceSlug, h[e].calls[i + 1].thr)

C6_Witness ==
    \E e \in Handlers :
        /\ Finished(h[e])
        /\ \E i \in CallIdx(h[e]) :
             ReadMapping(h[e], i) /\ h[e].calls[i].ws = "W1"
        /\ \E j \in CallsOf(h[e], "queryLlm") : h[e].calls[j].ok /\ h[e].calls[j].ws = "W2"
        /\ Lookup(<<Channel, ThreadRootTs>>) = Mapping("W2", 2)
\* a text made of whitespace and at most one mention of the bot
OnlyMention(text) ==
    /\ \A i \in 1..Len(text) : text[i] \in {SP, MENTION}
    /\ Cardinality({i \in 1..Len(text) : text[i] = MENTION}) <= 1

NoGrammarMatches(q) ==
    ~ReleaseMatch(q) /\ ~PrReviewMatch(q) /\ ~IssueMatch(q) /\ ~GenericApiMatch(q)
GithubConfigured(hr) == cfg.githubToken /\ hr.octokit
UnknownUpdate(ok) == Call("update", Txt("Unknown", ""), NoWs, NoThread, ok)

\* C8: a message with the command prefix that matches none of the four
\* grammars, GitHub being configured and the placeholder posted, gets the
\* 'unknown command' text on its placeholder exactly once, and neither intent
\* classification nor an LLM query happens.
C8_UnknownCommandOnce ==
    \A e \in Handlers :
        ( /\ Finished(h[e])
          /\ PlaceholderPosted(h[e])
          /\ IsPotentialGhCommand(h[e].cleanedQuery)
          /\ NoGrammarMatches(h[e].cleanedQuery)
          /\ GithubConfigured(h[e]) ) =>
            /\ Len(h[e].calls) = 2
            /\ h[e].calls[2] \in {UnknownUpdate(TRUE), UnknownUpdate(FALSE)}
            /\ h[e].calls[2].ok => h[e].placeholder = Txt("Unknown", "")
            /\ h[e].result = "returned"

C8_Witness ==
    \E e \in Handlers :
        /\ Finished(h[e])
        /\ h[e].cleanedQuery = <<GH, SP, "foo">>
        /\ h[e].placeholder = Txt("Unknown", "")

\* C9: a message with the command prefix never reaches intent
\* classification or the LLM query, whichever grammar it matches and
\* whatever the executor returns.
C9_CommandsNeverReachLlm ==
    \A e \in Handlers :
        IsPotentialGhCommand(h[e].cleanedQuery) =>
            /\ ~Called(h[e], "detectIntent")
            /\ ~Called(h[e], "queryLlm")
            /\ h[e].pc \notin {"detect_intent", "determine_workspace", "get_mapping",
                               "create_thread", "store_mapping", "update_thinking",
                               "query_llm", "delete_thinking", "catch", "finally"}

C9_Witness ==
    \E e \in Handlers :
        /\ Finished(h[e])
        /\ ReleaseMatch(h[e].cleanedQuery)
        /\ Len(h[e].calls) = 3
        /\ h[e].calls[2].op = "release"
        /\ h[e].calls[2].ok
        /\ h[e].calls[3] = UnknownUpdate(TRUE)

RejectionTexts == {Txt("NoToken", ""), Txt("NoClient", "")}

\* C10: with GitHub unconfigured, a message with the command prefix has its
\* placeholder replaced by a rejection text and the handler returns: no
\* executor runs, no mapping is read or written, no thread is created.
C10_UnconfiguredRejected ==
    \A e \in Handlers :
        ( /\ PlaceholderPosted(h[e])
          /\ IsPotentialGhCommand(h[e].cleanedQuery)
          /\ ~GithubConfigured(h[e]) ) =>
            /\ Len(h[e].calls) <= 2
            /\ Finished(h[e]) <=> Len(h[e].calls) = 2
            /\ Finished(h[e]) =>
                 /\ h[e].calls[2].op = "update"
                 /\ h[e].calls[2].txt \in RejectionTexts
                 /\ h[e].calls[2].ok => h[e].placeholder = h[e].calls[2].txt
                 /\ h[e].result = "returned"
            /\ store = InitialStore
            /\ threads = InitialThreads

C10_Witness ==
    \E e \in Handlers :
        /\ Finished(h[e])
        /\ IssueMatch(h[e].cleanedQuery)
        /\ ~cfg.githubToken
        /\ h[e].placeholder = Txt("NoToken", "")

\* C11: when the post of the placeholder raises or answers without a ts, the
\* handler stops there: that post is the only call it ever makes (no executor,
\* no classification, no mapping access, no LLM call, no other Slack call),
\* it returns, and the store and the threads are as they were.
C11_PlaceholderFailureAborts ==
    \A e \in Handlers :
        ( /\ h[e].calls # <<>>
          /\ h[e].calls[1].op = "post"
          /\ h[e].calls[1].txt = ProcessingText
          /\ h[e].placeholder = NoMessage ) =>
            /\ Len(h[e].calls) = 1
            /\ h[e].thinkingMessageTs = 0
            /\ Finished(h[e])
            /\ h[e].result = "returned"
            /\ store = InitialStore
            /\ threads = InitialThreads

C11_Witness ==
    \E e \in Handlers :
        /\ Finished(h[e])
        /\ h[e].calls = <<Call("post", ProcessingText, NoWs, NoThread, TRUE)>>
        /\ h[e].placeholder = NoMessage
        /\ IssueMatch(h[e].cleanedQuery)

\* C12: on the LLM path, when the message carries an inline override token and
\* the classifier suggested a workspace, the workspace of the thread mapping
\* and of the LLM query is the one the override names.
C12_OverrideBeatsSuggestion ==
    \A e \in Handlers :
        ( /\ HasOverride(h[e].cleanedQuery)
          /\ h[e].suggestedWorkspace # NoWs
          /\ h[e].finalWorkspaceSlug # NoWs ) =>
            /\ h[e].finalWorkspaceSlug = OverrideWs(h[e].cleanedQuery)
            /\ \A i \in CallsOf(h[e], "queryLlm") :
                  h[e].calls[i].ws = OverrideWs(h[e].cleanedQuery)

\* the posts that carry the feedback buttons
FeedbackPosts(hr) ==
    {i \in CallsOf(hr, "post") : hr.calls[i].txt[1] = "Feedback"}
\* the posts of reply segments
SegmentPosts(hr) ==
    {i \in CallsOf(hr, "post") : hr.calls[i].txt[1] = "Segment"}

\* C13: when the trimmed reply is shorter than the substantive threshold, no
\* post of the event carries the feedback buttons, however many segments are
\* posted.
C13_ShortReplyNoFeedback ==
    \A e \in Handlers :
        ( /\ \E i \in CallsOf(h[e], "queryLlm") : h[e].calls[i].ok
          /\ TrimmedLength(h[e].reply) < MIN_SUBSTANTIVE_RESPONSE_LENGTH ) =>
            /\ FeedbackPosts(h[e]) = {}
            /\ h[e].pc # "post_feedback"

C13_Witness ==
    \E e \in Handlers :
        /\ Finished(h[e])
        /\ TrimmedLength(h[e].reply) = 1
        /\ Cardinality({i \in SegmentPosts(h[e]) : h[e].calls[i].ok}) = 2
        /\ FeedbackPosts(h[e]) = {}

\* C14: the segment posts of one event are made one after another in the
\* segmenter's order: a later post never belongs to an earlier segment, a
\* segment has at most its post and one retry, the retry follows its failed
\* post at once, and no post of another segment comes between them.
C14_SegmentsInSequence ==
    \A e \in Handlers :
        /\ \A i, j \in SegmentPosts(h[e]) :
              i < j =>
                /\ h[e].calls[i].idx <= h[e].calls[j].idx
                /\ h[e].calls[i].idx = h[e].calls[j].idx =>
                      /\ j = i + 1
                      /\ h[e].calls[i].txt[2] = "block"
                      /\ ~h[e].calls[i].ok
                      /\ h[e].calls[j].txt[2] = "retry"
        /\ \A i \in SegmentPosts(h[e]) :
              /\ h[e].calls[i].idx \in 1..Len(h[e].reply.segs)
              /\ HasSegmentText(h[e].reply.segs[h[e].calls[i].idx])
              /\ (h[e].calls[i].txt[2] = "block" /\ ~h[e].calls[i].ok) =>
                    /\ Len(h[e].calls) = i => h[e].pc = "retry_segment"
                    /\ Len(h[e].calls) > i =>
                          /\ h[e].calls[i + 1].txt = Txt("Segment", "retry")
                          /\ h[e].calls[i + 1].idx = h[e].calls[i].idx

C14_Witness ==
    \E e \in Handlers :
        /\ Finished(h[e])
        /\ Len(h[e].reply.segs) = 3
        /\ \E i \in SegmentPosts(h[e]) :
              /\ i < Len(h[e].calls)
              /\ h[e].calls[i].idx = 2
              /\ ~h[e].calls[i].ok
              /\ h[e].calls[i + 1].txt = Txt("Segment", "retry")
              /\ h[e].calls[i + 1].ok

\* the intents lines 270 and 278 have a case for
StubbedIntents == {"github_issue_lookup", "ask_faq"}

\* C17: with intent routing enabled, an intent at or above the confidence
\* threshold that no handler is registered for falls through to the LLM path:
\* the workspace is resolved, and unless a collaborator fails the mapping is
\* resolved and the LLM is queried.
C17_UnroutedIntentReachesLlm ==
    \A e \in Handlers :
        ( /\ Finished(h[e])
          /\ cfg.intentRoutingEnabled
          /\ \E i \in CallsOf(h[e], "detectIntent") : h[e].calls[i].ok
          /\ h[e].intent \notin StubbedIntents \cup {"none"}
          /\ h[e].confidence >= intentConfidenceThreshold ) =>
            Called(h[e], "determineWorkspace")

\* the call in which workspace resolution answered null on the LLM path
ResolvedNull(hr, i) ==
    /\ ~IsPotentialGhCommand(hr.cleanedQuery)
    /\ hr.calls[i].op = "determineWorkspace"
    /\ hr.calls[i].ok
    /\ hr.calls[i].ws = NoWs

\* C18: when workspace resolution answers null on the LLM path, no mapping is
\* read or written, no thread is created and the LLM is not queried; the one
\* thing the handler still does is update the placeholder to the error text.
C18_NullWorkspaceIsFatal ==
    \A e \in Handlers :
        \A i \in CallIdx(h[e]) :
            ResolvedNull(h[e], i) =>
                /\ \A op \in {"getMapping", "storeMapping", "createThread", "queryLlm"} :
                      ~Called(h[e], op)
                /\ store = InitialStore
                /\ threads = InitialThreads
                /\ Len(h[e].calls) <= i + 1
                /\ Finished(h[e]) =>
                     /\ Len(h[e].calls) = i + 1
                     /\ h[e].calls[i + 1].op = "update"
                     /\ h[e].calls[i + 1].txt = Txt("Oops", "no workspace")
                     /\ h[e].calls[i + 1].ok => h[e].placeholder = Txt("Oops", "no workspace")
                     /\ h[e].result = "returned"

C18_Witness ==
    \E e \in Handlers :
        /\ Finished(h[e])
        /\ \E i \in CallIdx(h[e]) : ResolvedNull(h[e], i)
        /\ h[e].placeholder = Txt("Oops", "no workspace")

\* C19: the issue-analysis executor is given the explicit workspace of the
\* command when there is one, else the mapped workspace, else the resolver's
\* answer; it is given the mapped thread when the conversation is mapped, and
\* otherwise a thread that was created, and stored with the workspace under
\* the conversation's key, before the executor was invoked.
C19_IssueContextResolution ==
    \A e \in Handlers :
        \A j \in CallsOf(h[e], "issueAnalysis") :
            LET c == h[e].calls[j]
                explicitWs == ExplicitWs(h[e].cleanedQuery)
                before(op) == {i \in CallsOf(h[e], op) : i < j /\ h[e].calls[i].ok}
            IN  \E g \in before("getMapping") :
                  LET m == h[e].calls[g] IN
                    /\ c.thr # NoThread
                    /\ explicitWs # NoWs => c.ws = explicitWs /\ before("determineWorkspace") = {}
                    /\ m.ws # NoWs =>
                          /\ explicitWs = NoWs => c.ws = m.ws
                          /\ c.thr = m.thr
                          /\ before("createThread") = {}
                          /\ before("storeMapping") = {}
                    /\ m.ws = NoWs =>
                          /\ explicitWs = NoWs =>
                                \E d \in before("determineWorkspace") : h[e].calls[d].ws = c.ws
                          /\ \E k \in before("createThread"), l \in before("storeMapping") :
                                /\ k < l
                                /\ h[e].calls[k].ws = c.ws /\ h[e].calls[k].thr = c.thr
                                /\ h[e].calls[l].ws = c.ws /\ h[e].calls[l].thr = c.thr
                          /\ Lookup(KeyOf(h[e])) = Mapping(c.ws, c.thr)

C19_Witness ==
    \E e \in Handlers :
        /\ Finished(h[e])
        /\ ExplicitWs(h[e].cleanedQuery) = "W2"
        /\ \E g \in CallsOf(h[e], "getMapping") : h[e].calls[g].ws = "W1"
        /\ \E j \in CallsOf(h[e], "issueAnalysis") :
              h[e].calls[j].ws = "W2" /\ h[e].calls[j].thr = 1

\* a step of the issue-analysis context setup that failed
SetupFailure(hr, i) ==
    /\ IssueMatch(hr.cleanedQuery)
    /\ \/ /\ hr.calls[i].op \in {"getMapping", "determineWorkspace", "createThread",
                                 "storeMapping"}
          /\ ~hr.calls[i].ok
       \/ hr.calls[i].op = "determineWorkspace" /\ hr.calls[i].ws = NoWs
       \/ hr.calls[i].op = "createThread" /\ hr.calls[i].thr = NoThread

\* C20: after a failed step of the issue-analysis context setup the handler
\* does one more thing, the update of the placeholder to the setup error, and
\* returns with the command handled: the executor is not invoked, and no
\* later grammar, unknown-command reply or LLM path follows.
C20_IssueSetupFailureHandled ==
    \A e \in Handlers :
        \A i \in CallIdx(h[e]) :
            SetupFailure(h[e], i) =>
                /\ \A op \in ExecutorOps \cup {"detectIntent", "queryLlm"} : ~Called(h[e], op)
                /\ Len(h[e].calls) <= i + 1
                /\ Len(h[e].calls) = i + 1 <=> Finished(h[e])
                /\ Finished(h[e]) =>
                     /\ h[e].calls[i + 1].op = "update"
                     /\ h[e].calls[i + 1].txt = Txt("SetupError", h[e].error)
                     /\ h[e].calls[i + 1].ok => h[e].placeholder = h[e].calls[i + 1].txt
                     /\ h[e].commandHandled
                     /\ h[e].result = "returned"

C20_Witness ==
    \E e \in Handlers :
        /\ Finished(h[e])
        /\ \E i \in CallIdx(h[e]) :
              SetupFailure(h[e], i) /\ h[e].calls[i].op = "storeMapping"
        /\ h[e].placeholder = Txt("SetupError", "timeout")

\* no key has two rows
OneRowPerKey == \A r1, r2 \in store : r1.key = r2.key => r1 = r2
\* a step keeps every mapped key mapped
KeysKept == \A r \in store : \E x \in store' : x.key = r.key
\* a store write of a step leaves the key with the written row alone
WriteReplaces ==
    \A e \in Handlers :
        ( /\ Len(h'[e].calls) = Len(h[e].calls) + 1
          /\ h'[e].calls[Len(h'[e].calls)].op = "storeMapping"
          /\ h'[e].calls[Len(h'[e].calls)].ok ) =>
            LET c == h'[e].calls[Len(h'[e].calls)] IN
              /\ {x \in store' : x.key = KeyOf(h[e])} = {Row(KeyOf(h[e]), c.ws, c.thr)}
              /\ {x \in store' : x.key # KeyOf(h[e])} = {x \in store : x.key # KeyOf(h[e])}

Raced(e) ==
    /\ Finished(h[e])
    /\ \E g \in CallsOf(h[e], "getMapping") : h[e].calls[g].ok /\ h[e].calls[g].ws = NoWs
    /\ WritesOf(e) # {}
\* the store write of a handler that made one
WriteOf(e) == h[e].calls[CHOOSE w \in WritesOf(e) : TRUE]

\* C16: when two handlers of one unmapped conversation both read "no mapping"
\* and each created and stored its own thread, then once both have finished
\* the threads are distinct, the store holds for the key exactly the pair of
\* the later of the two writes, and the handler of the earlier write has
\* queried its own thread, which is not the stored one.
C16_LastWriteWins ==
    ( /\ \A e \in Handlers : Raced(e)
      /\ \A e1, e2 \in Handlers : KeyOf(h[e1]) = KeyOf(h[e2]) ) =>
        \E last \in Handlers :
            /\ RowsOf(KeyOf(h[last])) =
                  {Row(KeyOf(h[last]), WriteOf(last).ws, WriteOf(last).thr)}
            /\ \A o \in Handlers \ {last} :
                  /\ WriteOf(o).idx < WriteOf(last).idx
                  /\ WriteOf(o).thr # WriteOf(last).thr
                  /\ CallsOf(h[o], "queryLlm") # {}
                  /\ \A q \in CallsOf(h[o], "queryLlm") :
                        /\ h[o].calls[q].thr = WriteOf(o).thr
                        /\ h[o].calls[q].thr # Lookup(KeyOf(h[o])).thr

C16_Witness ==
    /\ \A e \in Handlers : Raced(e) /\ h[e].threadTs = ThreadRootTs
    /\ \E e1, e2 \in Handlers :
          /\ WriteOf(e1).thr = 1 /\ WriteOf(e2).thr = 2
          /\ WriteOf(e1).idx > WriteOf(e2).idx
          /\ store = {Row(KeyOf(h[e1]), WriteOf(e1).ws, 1)}
          /\ \E q \in CallsOf(h[e2], "queryLlm") :
                h[e2].calls[q].ok /\ h[e2].calls[q].thr = 2

\* the posts of a kind
PostsOf(hr, kind) == {i \in CallsOf(hr, "post") : hr.calls[i].txt[1] = kind}
\* the LLM answered
Answered(hr) == \E i \in CallsOf(hr, "queryLlm") : hr.calls[i].ok

\* C21: when the LLM's reply is empty after trimming or is no string, the
\* handler deletes the placeholder right after the reply and then posts the
\* "empty response" notice, once; it posts no segment, no raw reply and no
\* feedback buttons.
C21_EmptyReplyNotice ==
    \A e \in Handlers :
        \A q \in CallsOf(h[e], "queryLlm") :
            (h[e].calls[q].ok /\ TrimmedLength(h[e].reply) = 0) =>
                /\ \A kind \in {"Segment", "Raw", "Feedback"} : PostsOf(h[e], kind) = {}
                /\ h[e].pc \notin {"post_raw", "post_segment", "retry_segment", "post_feedback"}
                /\ Cardinality(PostsOf(h[e], "Empty")) <= 1
                /\ Len(h[e].calls) > q =>
                      /\ h[e].calls[q + 1].op = "delete"
                      /\ h[e].calls[q + 1].ok => h[e].placeholder = DeletedMessage
                /\ Len(h[e].calls) > q + 1 => PostsOf(h[e], "Empty") = {q + 2}
                /\ Finished(h[e]) => PostsOf(h[e], "Empty") = {q + 2}

C21_Witness ==
    \E e \in Handlers :
        /\ Finished(h[e])
        /\ Answered(h[e])
        /\ ~h[e].reply.str
        /\ h[e].placeholder = DeletedMessage
        /\ h[e].calls[Len(h[e].calls)] = PostCall("Empty", "", 0, "ts")

\* C22: when the trimmed reply is not empty and the segmenter gives no
\* segment, the raw reply is posted, once; and whatever the segment list, a
\* segment with empty content is never posted.
C22_RawFallbackAndEmptySegments ==
    \A e \in Handlers :
        /\ ( /\ Answered(h[e])
             /\ TrimmedLength(h[e].reply) > 0
             /\ h[e].reply.segs = <<>> ) =>
               /\ Cardinality(PostsOf(h[e], "Raw")) <= 1
               /\ PostsOf(h[e], "Segment") = {}
               /\ PostsOf(h[e], "Empty") = {}
               /\ Finished(h[e]) => Cardinality(PostsOf(h[e], "Raw")) = 1
        /\ \A i \in PostsOf(h[e], "Segment") :
              h[e].reply.segs[h[e].calls[i].idx].content # ""

C22_Witness ==
    \E e \in Handlers :
        /\ Finished(h[e])
        /\ TrimmedLength(h[e].reply) > 0
        /\ h[e].reply.segs = <<>>
        /\ \E i \in PostsOf(h[e], "Raw") : h[e].calls[i].ok

\* the posts that carry the reply
ReplyPosts(hr) == PostsOf(hr, "Segment") \cup PostsOf(hr, "Raw")

\* C23: when the reply is longer than the substantive threshold, the
\* feedback buttons are posted at most once, after every post of the reply,
\* only when a post of the reply succeeded, and as the handler's last call:
\* whether or not that post succeeds, no error message follows and the
\* handler returns.
C23_FeedbackAfterLastSegment ==
    \A e \in Handlers :
        (Answered(h[e]) /\ TrimmedLength(h[e].reply) > MIN_SUBSTANTIVE_RESPONSE_LENGTH) =>
            /\ Cardinality(PostsOf(h[e], "Feedback")) <= 1
            /\ \A f \in PostsOf(h[e], "Feedback") :
                  /\ \A i \in ReplyPosts(h[e]) : i < f
                  /\ \E i \in ReplyPosts(h[e]) : h[e].calls[i].ok
                  /\ f = Len(h[e].calls)
                  /\ h[e].error = ""
                  /\ h[e].pc \in {"finally", "done"}
                  /\ h[e].result # "threw"
            /\ h[e].pc = "post_feedback" => h[e].lastMessageTs

C23_Witness ==
    \E e \in Handlers :
        /\ Finished(h[e])
        /\ h[e].result = "returned"
        /\ TrimmedLength(h[e].reply) > MIN_SUBSTANTIVE_RESPONSE_LENGTH
        /\ Cardinality(PostsOf(h[e], "Segment")) = 2
        /\ \E f \in PostsOf(h[e], "Feedback") : ~h[e].calls[f].ok

\* the reply of the stubs of lines 274 and 282
StubText(intent) == Txt("NotImplemented", intent)

\* C24: with intent routing enabled, a stubbed intent at or above the
\* confidence threshold gets the "handler not implemented yet" reply on the
\* placeholder, which is still there when the handler returns (no delete
\* follows the update), and the workspace is not resolved, no thread is
\* created and the LLM is not queried.
C24_StubbedIntentHandled ==
    \A e \in Handlers :
        ( /\ Finished(h[e])
          /\ cfg.intentRoutingEnabled
          /\ \E i \in CallsOf(h[e], "detectIntent") : h[e].calls[i].ok
          /\ h[e].intent \in StubbedIntents
          /\ h[e].confidence >= intentConfidenceThreshold ) =>
            /\ \A op \in {"determineWorkspace", "createThread", "queryLlm"} :
                  ~Called(h[e], op)
            /\ \E u \in CallsOf(h[e], "update") :
                  /\ h[e].calls[u].txt = StubText(h[e].intent)
                  /\ \A j \in CallIdx(h[e]) : j > u => h[e].calls[j].op # "delete"
                  /\ h[e].calls[u].ok => h[e].placeholder = StubText(h[e].intent)

\* an error was raised on the intent/LLM path and the catch block has run
Caught(hr) ==
    /\ Called(hr, "detectIntent")
    /\ hr.error # ""
    /\ hr.pc \in {"finally", "done"}

\* C25: on the intent/LLM path, once the handler has deleted the placeholder
\* it makes no update or delete call any more; an error raised before that
\* is put on the placeholder by one update, an error raised after it is
\* posted as a new message, and in both cases that is the handler's last
\* call.
C25_ErrorOnPlaceholderOrPosted ==
    \A e \in Handlers :
        /\ Called(h[e], "detectIntent") =>
              \A d \in CallsOf(h[e], "delete") :
                  \A j \in CallIdx(h[e]) :
                      j > d => h[e].calls[j].op \notin {"update", "delete"}
        /\ Caught(h[e]) =>
              LET last == h[e].calls[Len(h[e].calls)] IN
                /\ last.txt = Txt("Oops", h[e].error)
                /\ last.op = IF CallsOf(h[e], "delete") = {} THEN "update" ELSE "post"
                /\ (last.op = "update" /\ last.ok) => h[e].placeholder = last.txt
                /\ Cardinality({i \in CallIdx(h[e]) : h[e].calls[i].txt[1] = "Oops"}) = 1
                /\ h[e].thinkingMessageTs = 0

C25_Witness ==
    \E e \in Handlers :
        /\ Finished(h[e])
        /\ Caught(h[e])
        /\ \E d \in CallsOf(h[e], "delete") : h[e].calls[d].ok
        /\ h[e].calls[Len(h[e].calls)] = PostCall("Oops", "post failed", 0, "ts")

\* some handler's thread-creation call for the workspace returned the thread
CreatedBy(ws, thr) ==
    \E e \in Handlers :
        \E k \in CallsOf(h[e], "createThread") :
            h[e].calls[k].ok /\ h[e].calls[k].ws = ws /\ h[e].calls[k].thr = thr

\* C26: in every reachable state, however chat messages and issue-analysis
\* commands of a conversation interleave, each row of the store pairs a
\* workspace with a thread that a thread-creation call for that workspace
\* returned (a call of one of the handlers, or for a row that was there from
\* the start an earlier one).
C26_StoredMappingsConsistent ==
    \A r \in store :
        /\ r.thr \in 1..MaxThreads
        /\ threads[r.thr] = r.ws
        /\ r \in InitialStore \/ CreatedBy(r.ws, r.thr)

C26_Witness ==
    /\ \A e \in Handlers : Finished(h[e]) /\ WritesOf(e) # {}
    /\ \E e1, e2 \in Handlers :
          /\ IssueMatch(h[e1].cleanedQuery)
          /\ ~IsPotentialGhCommand(h[e2].cleanedQuery)
          /\ WriteOf(e1).idx < WriteOf(e2).idx
          /\ WriteOf(e1).ws # WriteOf(e2).ws
          /\ store = {Row(KeyOf(h[e2]), WriteOf(e2).ws, WriteOf(e2).thr)}

\* C27: whenever handleIssueAnalysisCommand is invoked, the thread it is
\* given was created in the workspace it is given, also when the command
\* names a workspace other than the one the conversation is mapped to.
C27_ExecutorThreadInWorkspace ==
    \A e \in Handlers :
        \A j \in CallsOf(h[e], "issueAnalysis") :
            /\ h[e].calls[j].thr \in 1..MaxThreads
            /\ threads[h[e].calls[j].thr] = h[e].calls[j].ws
====
